---------------------------- MODULE Spec2Model ----------------------------
(***************************************************************************)
(* A model of gpm.go: the command registry and dispatch in main, the help  *)
(* and usage paths, the exit status and its mutex, the atexit chain run by *)
(* exit(), and executeGoCommand with its two io.Copy goroutines, the child *)
(* process and the two pipes between them.                                 *)
(*                                                                         *)
(* Strings are sequences of one-character strings, so that Command.Name    *)
(* is computed by scanning for the first space as strings.Index does.      *)
(* Templates are taken to be well formed: tmpl only produces output.       *)
(***************************************************************************)
EXTENDS Integers, Sequences, FiniteSets, TLC

(***************************************************************************)
(* Bounds of the model.                                                    *)
(***************************************************************************)
MaxStatus == 2        \* setExitStatus is called with values 0..MaxStatus
MaxHandlerCalls == 2  \* calls a command handler makes before it returns
MaxChildBytes == 2    \* bytes the child writes to each of its streams
PipeCap == 1          \* capacity of an OS pipe, in bytes
CopyBuf == 1          \* size of io.Copy's buffer, in bytes
MaxWorkerCalls == 2   \* setExitStatus calls of each concurrent caller (SpecStatus)

(***************************************************************************)
(* Strings.                                                                *)
(***************************************************************************)
sHelp == <<"h", "e", "l", "p">>
sBuild == <<"b", "u", "i", "l", "d">>
sInstall == <<"i", "n", "s", "t", "a", "l", "l">>
sZzz == <<"z", "z", "z">>
sBuildUsage == <<"b", "u", "i", "l", "d", " ", "[", "f", "]", " ", "p">>

\* strings.Index(s, " "): the index (from 0) of the first space, or -1.
IndexSpace(s) ==
    IF \E k \in 1..Len(s) : s[k] = " "
    THEN (CHOOSE k \in 1..Len(s) : s[k] = " " /\ \A j \in 1..(k - 1) : s[j] # " ") - 1
    ELSE -1

\* The name derivation applied to a string: the part before its first space.
NameOfMut(line) ==
    LET i == IndexSpace(line)
    IN  IF i >= 0 THEN SubSeq(line, 1, i + 1) ELSE line
NameOf(line) ==
    LET i == IndexSpace(line)
    IN  IF i >= 0 THEN SubSeq(line, 1, i) ELSE line

\* Command.Name.
Name(c) == NameOf(c.UsageLine)

\* Command.Runnable: Run is not nil.  The model keeps of Run only whether it
\* is present.
Runnable(c) == c.Run

(***************************************************************************)
(* The registry.  Its two entries are defined outside gpm.go, so their     *)
(* usage lines and whether they have a Run function are drawn from the     *)
(* values below: both runnable, a documentation-only entry, two entries of *)
(* the same name.                                                          *)
(***************************************************************************)
UsageLines == {sBuildUsage, sBuild, sInstall}
Registries ==
    { <<[UsageLine |-> sBuildUsage, Run |-> TRUE], [UsageLine |-> sInstall, Run |-> TRUE]>>,
      <<[UsageLine |-> sBuildUsage, Run |-> TRUE], [UsageLine |-> sInstall, Run |-> FALSE]>>,
      <<[UsageLine |-> sBuildUsage, Run |-> FALSE], [UsageLine |-> sBuild, Run |-> TRUE]>>,
      <<[UsageLine |-> sBuild, Run |-> TRUE], [UsageLine |-> sBuildUsage, Run |-> TRUE]>> }

\* os.Args[1:].
ArgLists ==
    { <<>>, <<sHelp>>, <<sHelp, sBuild>>, <<sHelp, sInstall>>, <<sHelp, sZzz>>,
      <<sHelp, sBuild, sZzz>>, <<sBuild, sZzz>>, <<sInstall>>, <<sZzz>>,
      <<sBuildUsage>> }

Tail1(s) == SubSeq(s, 2, Len(s))

(***************************************************************************)
(* Threads, cleanup actions, streams.                                      *)
(***************************************************************************)
Workers == {"w1", "w2"}
Threads == {"main"} \cup Workers
Unlocked == "unlocked"
StatusValues == 0..MaxStatus
CleanupIds == {"A", "B"}
Streams == {"stdout", "stderr"}

\* The child's output: the k-th byte it writes to a stream.  The two streams
\* carry different bytes, and no byte occurs twice.
ChildByte(s, k) == IF s = "stdout" THEN k ELSE 100 + k

VARIABLES
    commands,     \* the registry (var commands)
    args,         \* os.Args[1:]
    initResult,   \* what initialize() found: "none" before it ran
    pc,           \* where the main goroutine is
    exitStatus,   \* var exitStatus
    exitMu,       \* var exitMu: Unlocked or the thread holding it
    spc,          \* per thread: its position inside setExitStatus
    sn,           \* per thread: the argument n of its setExitStatus call
    ret,          \* where the main goroutine continues after setExitStatus
    atexitFuncs,  \* var atexitFuncs
    xi,           \* exit(): index of the range loop
    xfuncs,       \* exit(): the slice the range loop iterates (evaluated once)
    proc,         \* "running", or how the process ended
    exitCode,     \* the exit code of the ended process
    calls,        \* per thread: calls made so far (handler calls for main)
    invoked,      \* history: handlers invoked, with their arguments
    passed,       \* history: values of the completed setExitStatus calls
    ran,          \* history: cleanup actions run, in order
    exitCalls,    \* history: number of times exit() was entered
    epc,          \* where the main goroutine is in executeGoCommand
    pipeEnd,      \* per stream: the reader StdoutPipe/StderrPipe returned
    started,      \* cmdExec.Process: "no", "running", "exited", "failed"
    pipe,         \* per stream: the bytes in the OS pipe
    relay,        \* per stream: the io.Copy goroutine
    hand,         \* per stream: the bytes io.Copy has read and not yet written
    out,          \* per stream: the bytes io.Copy wrote to os.Stdout / os.Stderr
    childWrote,   \* history, per stream: the bytes the child wrote
    reports,      \* history: the errors printed by fmt.Println(err)
    waited        \* history: cmdExec.Wait() was called

vars == <<commands, args, initResult, pc, exitStatus, exitMu, spc, sn, ret,
          atexitFuncs, xi, xfuncs, proc, exitCode, calls, invoked, passed,
          ran, exitCalls, epc, pipeEnd, started, pipe, relay, hand, out,
          childWrote, reports, waited>>

relayVars == <<epc, pipeEnd, started, pipe, relay, hand, out, childWrote,
               reports, waited>>

lifeVars == <<exitStatus, exitMu, spc, sn, ret, passed>>
exitVars == <<atexitFuncs, xi, xfuncs, ran, exitCalls>>
inputVars == <<commands, args>>

(***************************************************************************)
(* Ending the process.                                                     *)
(***************************************************************************)
Running == proc = "running"

\* os.Exit(code) called from outside exit(): usage, help.
OsExit(code) == /\ proc' = "os.Exit"
                /\ exitCode' = code

\* main returns: the Go runtime ends the process with code 0.
MainReturnsMut == /\ proc' = "return"
                  /\ exitCode' = 2
MainReturns == /\ proc' = "return"
               /\ exitCode' = 0

(***************************************************************************)
(* initialize, getAppPath, loadUsage.  The files and the PATH lookup are    *)
(* inputs: env says whether the executable is found, whether the           *)
(* configuration decodes, whether usage.tpl opens, and for each command    *)
(* name the number of "|||"-separated parts of its usage file (0: the file *)
(* does not open).                                                         *)
(***************************************************************************)
CommandNames == {NameOf(u) : u \in UsageLines}
Envs == [appPath : BOOLEAN, config : BOOLEAN, usageTpl : BOOLEAN,
         parts : [CommandNames -> 0..3]]

loadUsage(env) ==
    /\ env.usageTpl
    /\ \A i \in 1..Len(commands) : env.parts[Name(commands[i])] >= 2

initialize(env) ==
    IF ~env.appPath THEN "noAppPath"
    ELSE IF ~env.config THEN "badConfig"
    ELSE IF ~loadUsage(env) THEN "badUsage"
    ELSE "ok"

\* The test of line 170, "if !initialize()": initialize returns false on
\* every failure.
InitFailedMut(r) == r = "noAppPath"
InitFailed(r) == r # "ok"

\* main, lines 169-172.
MainInitialize ==
    /\ Running /\ pc = "initialize"
    /\ \E env \in Envs :
         /\ initResult' = initialize(env)
         /\ IF InitFailed(initialize(env))
            THEN /\ pc' = "halt"
                 /\ MainReturns
            ELSE /\ pc' = "main"
                 /\ UNCHANGED <<proc, exitCode>>
    /\ UNCHANGED <<relayVars, inputVars, lifeVars, exitVars, calls, invoked>>

\* main, lines 175-179: usage() prints and calls os.Exit(2).
MainUsage ==
    /\ Running /\ pc = "main"
    /\ Len(args) < 1
    /\ pc' = "halt"
    /\ OsExit(2)
    /\ UNCHANGED <<relayVars, inputVars, initResult, lifeVars, exitVars, calls, invoked>>

IsHelp(a) == Len(a) >= 1 /\ a[1] = sHelp

\* help's lookup: any command of that name, runnable or not.
HelpMatchMut(c, arg) == Name(c) = arg /\ Runnable(c)
HelpMatch(c, arg) == Name(c) = arg

\* help's test for too many arguments (line 253).
TooManyMut(hargs) == Len(hargs) > 2
TooMany(hargs) == Len(hargs) # 1

\* The exit code help(hargs) ends the process with: 2 from its os.Exit(2)
\* calls, 0 when it returns and main returns after it.
helpCode(hargs) ==
    IF Len(hargs) = 0 THEN 0
    ELSE IF TooMany(hargs) THEN 2
    ELSE IF \E i \in 1..Len(commands) : HelpMatch(commands[i], hargs[1]) THEN 0
    ELSE 2

\* main, lines 182-185, with help: help returns and main returns.
MainHelpReturns ==
    /\ Running /\ pc = "main"
    /\ IsHelp(args)
    /\ helpCode(Tail1(args)) = 0
    /\ pc' = "halt"
    /\ MainReturns
    /\ UNCHANGED <<relayVars, inputVars, initResult, lifeVars, exitVars, calls, invoked>>

\* main, lines 182-183, with help: help calls os.Exit(2).
MainHelpFails ==
    /\ Running /\ pc = "main"
    /\ IsHelp(args)
    /\ helpCode(Tail1(args)) = 2
    /\ pc' = "halt"
    /\ OsExit(2)
    /\ UNCHANGED <<relayVars, inputVars, initResult, lifeVars, exitVars, calls, invoked>>

(***************************************************************************)
(* Dispatch: the loop of lines 188-194.                                    *)
(***************************************************************************)
MatchMut(c, arg) == Runnable(c)
MatchNameOnlyMut(c, arg) == Name(c) = arg
Match(c, arg) == Name(c) = arg /\ Runnable(c)

Matches(arg) == {i \in 1..Len(commands) : Match(commands[i], arg)}

\* The index of the command the loop runs, 0 when it runs none.
SelectedMut(arg) ==
    IF Matches(arg) = {} THEN 0
    ELSE CHOOSE i \in Matches(arg) : \A j \in Matches(arg) : i >= j
Selected(arg) ==
    IF Matches(arg) = {} THEN 0
    ELSE CHOOSE i \in Matches(arg) : \A j \in Matches(arg) : i <= j

\* Lines 188-190: the first match's Run is called with args[1:].
MainRun ==
    /\ Running /\ pc = "main"
    /\ Len(args) >= 1 /\ ~IsHelp(args)
    /\ Selected(args[1]) # 0
    /\ invoked' = Append(invoked, [cmd |-> Selected(args[1]), args |-> Tail1(args)])
    /\ pc' = "run"
    /\ UNCHANGED <<relayVars, inputVars, initResult, lifeVars, exitVars, proc, exitCode, calls>>

\* The status main raises for an unknown subcommand (line 198).
UnknownStatus == 2

\* Lines 197-198: no match; setExitStatus(2) is entered, exit() follows.
MainUnknown ==
    /\ Running /\ pc = "main"
    /\ Len(args) >= 1 /\ ~IsHelp(args)
    /\ Selected(args[1]) = 0
    /\ pc' = "setExitStatus"
    /\ spc' = [spc EXCEPT !["main"] = "lock"]
    /\ sn' = [sn EXCEPT !["main"] = UnknownStatus]
    /\ ret' = "exit"
    /\ UNCHANGED <<relayVars, inputVars, initResult, exitStatus, exitMu, passed, exitVars,
                   proc, exitCode, calls, invoked>>

(***************************************************************************)
(* setExitStatus, lines 205-211, one step per statement.                   *)
(***************************************************************************)
\* exitMu.Lock() proceeds only when the mutex is free.
CanLockMut(mu) == TRUE
CanLock(mu) == mu = Unlocked

\* The comparison of line 207.
LessMut(a, b) == a > b
LessOrGreaterMut(a, b) == a # b
Less(a, b) == a < b

Lock(t) ==
    /\ Running /\ spc[t] = "lock"
    /\ CanLock(exitMu)
    /\ exitMu' = t
    /\ spc' = [spc EXCEPT ![t] = "compare"]
    /\ UNCHANGED <<relayVars, inputVars, initResult, pc, exitStatus, sn, ret, passed,
                   exitVars, proc, exitCode, calls, invoked>>

Compare(t) ==
    /\ Running /\ spc[t] = "compare"
    /\ spc' = [spc EXCEPT ![t] = IF Less(exitStatus, sn[t]) THEN "assign" ELSE "unlock"]
    /\ UNCHANGED <<relayVars, inputVars, initResult, pc, exitStatus, exitMu, sn, ret, passed,
                   exitVars, proc, exitCode, calls, invoked>>

Assign(t) ==
    /\ Running /\ spc[t] = "assign"
    /\ exitStatus' = sn[t]
    /\ spc' = [spc EXCEPT ![t] = "unlock"]
    /\ UNCHANGED <<relayVars, inputVars, initResult, pc, exitMu, sn, ret, passed,
                   exitVars, proc, exitCode, calls, invoked>>

\* exitMu.Unlock() and the return to the caller: for the main goroutine the
\* handler (ret = "run") or, after line 198, exit() of line 199.
Unlock(t) ==
    /\ Running /\ spc[t] = "unlock"
    /\ exitMu' = Unlocked
    /\ spc' = [spc EXCEPT ![t] = "idle"]
    /\ passed' = Append(passed, sn[t])
    /\ IF t = "main"
       THEN /\ pc' = ret
            /\ IF ret = "exit"
               THEN /\ xi' = 1
                    /\ xfuncs' = atexitFuncs
                    /\ exitCalls' = exitCalls + 1
               ELSE UNCHANGED <<xi, xfuncs, exitCalls>>
       ELSE UNCHANGED <<pc, xi, xfuncs, exitCalls>>
    /\ UNCHANGED <<relayVars, inputVars, initResult, exitStatus, sn, ret, atexitFuncs, ran,
                   proc, exitCode, calls, invoked>>

(***************************************************************************)
(* The command handler (Command.Run).  Its body is outside gpm.go: it is   *)
(* any sequence of at most MaxHandlerCalls calls of setExitStatus, atexit  *)
(* and executeGoCommand, followed by its return.                           *)
(***************************************************************************)
HandlerSetExitStatus ==
    /\ Running /\ pc = "run"
    /\ calls["main"] < MaxHandlerCalls
    /\ \E n \in StatusValues :
         sn' = [sn EXCEPT !["main"] = n]
    /\ spc' = [spc EXCEPT !["main"] = "lock"]
    /\ ret' = "run"
    /\ pc' = "setExitStatus"
    /\ calls' = [calls EXCEPT !["main"] = @ + 1]
    /\ UNCHANGED <<relayVars, inputVars, initResult, exitStatus, exitMu, passed, exitVars,
                   proc, exitCode, invoked>>

\* atexit, lines 274-276.
atexit(f) == atexitFuncs' = Append(atexitFuncs, f)

HandlerAtexit ==
    /\ Running /\ pc = "run"
    /\ calls["main"] < MaxHandlerCalls
    /\ \E f \in CleanupIds : atexit(f)
    /\ calls' = [calls EXCEPT !["main"] = @ + 1]
    /\ UNCHANGED <<relayVars, inputVars, initResult, pc, lifeVars, xi, xfuncs, ran, exitCalls,
                   proc, exitCode, invoked>>

\* The handler returns to line 191: exit() is entered and its range
\* expression is evaluated.
HandlerReturn ==
    /\ Running /\ pc = "run"
    /\ pc' = "exit"
    /\ xi' = 1
    /\ xfuncs' = atexitFuncs
    /\ exitCalls' = exitCalls + 1
    /\ UNCHANGED <<relayVars, inputVars, initResult, lifeVars, atexitFuncs, ran,
                   proc, exitCode, calls, invoked>>

(***************************************************************************)
(* exit, lines 278-283.                                                    *)
(***************************************************************************)
\* The element the range loop visits at its i-th iteration.
RangeItemMut(fs, i) == fs[Len(fs) + 1 - i]
RangeItem(fs, i) == fs[i]

\* Line 280: f().  A cleanup action is opaque; the model records its run.
ExitRunFunc ==
    /\ Running /\ pc = "exit"
    /\ xi <= Len(xfuncs)
    /\ ran' = Append(ran, RangeItem(xfuncs, xi))
    /\ xi' = xi + 1
    /\ UNCHANGED <<relayVars, inputVars, initResult, pc, lifeVars, atexitFuncs, xfuncs,
                   exitCalls, proc, exitCode, calls, invoked>>

\* The code os.Exit is given at line 282.
ExitArg(status) == status

\* Line 282: os.Exit(exitStatus).
ExitOsExit ==
    /\ Running /\ pc = "exit"
    /\ xi > Len(xfuncs)
    /\ pc' = "halt"
    /\ proc' = "exit"
    /\ exitCode' = ExitArg(exitStatus)
    /\ UNCHANGED <<relayVars, inputVars, initResult, lifeVars, exitVars, calls, invoked>>

(***************************************************************************)
(* executeGoCommand, lines 286-303, one step per statement, with the       *)
(* os/exec behaviour it relies on: a pipe call that fails returns a nil    *)
(* reader; a Start that fails closes the pipes; Wait returns at once when  *)
(* the process was not started, and otherwise returns after the child has  *)
(* exited, closing both readers.                                           *)
(***************************************************************************)
\* The handler calls executeGoCommand; the model follows one call per run.
HandlerExecuteGoCommand ==
    /\ Running /\ pc = "run"
    /\ calls["main"] < MaxHandlerCalls
    /\ epc = "none"
    /\ pc' = "exec"
    /\ epc' = "stdoutPipe"
    /\ calls' = [calls EXCEPT !["main"] = @ + 1]
    /\ UNCHANGED <<pipeEnd, started, pipe, relay, hand, out, childWrote, reports,
                   waited, inputVars, initResult, lifeVars, exitVars, proc,
                   exitCode, invoked>>

\* Lines 288-291 (s = "stdout") and 292-295 (s = "stderr"): a failure is
\* printed and the next statement follows.
ExecPipe(s, at, next) ==
    /\ Running /\ pc = "exec" /\ epc = at
    /\ \E ok \in BOOLEAN :
         IF ok
         THEN /\ pipeEnd' = [pipeEnd EXCEPT ![s] = "open"]
              /\ epc' = next
              /\ UNCHANGED reports
         ELSE /\ pipeEnd' = [pipeEnd EXCEPT ![s] = "nil"]
              /\ epc' = next
              /\ reports' = Append(reports, s)
    /\ UNCHANGED <<started, pipe, relay, hand, out, childWrote, waited, inputVars,
                   initResult, pc, lifeVars, exitVars, proc, exitCode, calls, invoked>>

ExecStdoutPipe == ExecPipe("stdout", "stdoutPipe", "stderrPipe")

ExecStderrPipe == ExecPipe("stderr", "stderrPipe", "start")

\* Lines 296-299: a failure is printed and the next statement follows.
ExecStart ==
    /\ Running /\ pc = "exec" /\ epc = "start"
    /\ \E ok \in BOOLEAN :
         IF ok
         THEN /\ started' = "running"
              /\ epc' = "goStdout"
              /\ UNCHANGED <<pipeEnd, reports>>
         ELSE /\ started' = "failed"
              /\ pipeEnd' = [s \in Streams |->
                               IF pipeEnd[s] = "open" THEN "closed" ELSE pipeEnd[s]]
              /\ epc' = "goStdout"
              /\ reports' = Append(reports, "start")
    /\ UNCHANGED <<pipe, relay, hand, out, childWrote, waited, inputVars,
                   initResult, pc, lifeVars, exitVars, proc, exitCode, calls, invoked>>

\* A variant: the second copy is started when the first has ended.
ExecGoMut(s, at, next) ==
    /\ Running /\ pc = "exec" /\ epc = at
    /\ (s = "stderr" => relay["stdout"] = "done")
    /\ relay' = [relay EXCEPT ![s] = "reading"]
    /\ epc' = next
    /\ UNCHANGED <<pipeEnd, started, pipe, hand, out, childWrote, reports, waited,
                   inputVars, initResult, pc, lifeVars, exitVars, proc, exitCode,
                   calls, invoked>>

\* Lines 300 (s = "stdout") and 301 (s = "stderr"): go io.Copy(...).
ExecGo(s, at, next) ==
    /\ Running /\ pc = "exec" /\ epc = at
    /\ relay' = [relay EXCEPT ![s] = "reading"]
    /\ epc' = next
    /\ UNCHANGED <<pipeEnd, started, pipe, hand, out, childWrote, reports, waited,
                   inputVars, initResult, pc, lifeVars, exitVars, proc, exitCode,
                   calls, invoked>>

ExecGoStdout == ExecGo("stdout", "goStdout", "goStderr")

ExecGoStderr == ExecGo("stderr", "goStderr", "wait")

\* What cmdExec.Wait() of line 302 waits for before it returns.
WaitDone == started \in {"failed", "exited"}

\* Line 302 and the return to the handler.  Wait closes the readers, and
\* what is still in a pipe is lost with it.
ExecWait ==
    /\ Running /\ pc = "exec" /\ epc = "wait"
    /\ WaitDone
    /\ waited' = TRUE
    /\ pipeEnd' = [s \in Streams |->
                     IF pipeEnd[s] = "open" THEN "closed" ELSE pipeEnd[s]]
    /\ pipe' = [s \in Streams |-> <<>>]
    /\ epc' = "returned"
    /\ pc' = "run"
    /\ UNCHANGED <<started, relay, hand, out, childWrote, reports, inputVars,
                   initResult, lifeVars, exitVars, proc, exitCode, calls, invoked>>

(***************************************************************************)
(* The child process: it writes up to MaxChildBytes bytes to each of its   *)
(* streams, in any order, and exits.  A stream whose pipe was not opened   *)
(* is the null device.  A write to a full pipe blocks.                     *)
(***************************************************************************)
ChildWrite ==
    /\ Running /\ started = "running"
    /\ \E s \in Streams :
         LET b == ChildByte(s, Len(childWrote[s]) + 1)
         IN  /\ Len(childWrote[s]) < MaxChildBytes
             /\ childWrote' = [childWrote EXCEPT ![s] = Append(@, b)]
             /\ IF pipeEnd[s] = "open"
                THEN /\ Len(pipe[s]) < PipeCap
                     /\ pipe' = [pipe EXCEPT ![s] = Append(@, b)]
                ELSE UNCHANGED pipe
    /\ UNCHANGED <<epc, pipeEnd, started, relay, hand, out, reports, waited,
                   inputVars, initResult, pc, lifeVars, exitVars, proc, exitCode,
                   calls, invoked>>

ChildExit ==
    /\ Running /\ started = "running"
    /\ started' = "exited"
    /\ UNCHANGED <<epc, pipeEnd, pipe, relay, hand, out, childWrote, reports, waited,
                   inputVars, initResult, pc, lifeVars, exitVars, proc, exitCode,
                   calls, invoked>>

(***************************************************************************)
(* The two io.Copy goroutines of lines 300-301: read a chunk, write it,    *)
(* until Read fails or reports the end of the stream.                      *)
(***************************************************************************)
\* The bytes one Read takes from a pipe holding q.
Chunk(q) == SubSeq(q, 1, IF Len(q) < CopyBuf THEN Len(q) ELSE CopyBuf)

\* Read on a nil reader: the goroutine panics and the runtime ends the
\* process with code 2.
RelayPanic ==
    /\ Running
    /\ \E s \in Streams :
         /\ relay[s] = "reading"
         /\ pipeEnd[s] = "nil"
    /\ proc' = "panic"
    /\ exitCode' = 2
    /\ UNCHANGED <<relayVars, inputVars, initResult, pc, lifeVars, exitVars,
                   calls, invoked>>

\* Read returns bytes.
RelayRead ==
    /\ Running
    /\ \E s \in Streams :
         /\ relay[s] = "reading"
         /\ pipeEnd[s] = "open"
         /\ pipe[s] # <<>>
         /\ hand' = [hand EXCEPT ![s] = Chunk(pipe[s])]
         /\ pipe' = [pipe EXCEPT ![s] = SubSeq(@, Len(Chunk(@)) + 1, Len(@))]
         /\ relay' = [relay EXCEPT ![s] = "writing"]
    /\ UNCHANGED <<epc, pipeEnd, started, out, childWrote, reports, waited,
                   inputVars, initResult, pc, lifeVars, exitVars, proc, exitCode,
                   calls, invoked>>

\* The caller's stream the goroutine reading the child's stream s writes to:
\* os.Stdout at line 300, os.Stderr at line 301.
DestMut(s) == "stdout"
Dest(s) == s

\* Write of the chunk to the caller's stream.
RelayWrite ==
    /\ Running
    /\ \E s \in Streams :
         /\ relay[s] = "writing"
         /\ out' = [out EXCEPT ![Dest(s)] = @ \o hand[s]]
         /\ hand' = [hand EXCEPT ![s] = <<>>]
         /\ relay' = [relay EXCEPT ![s] = "reading"]
    /\ UNCHANGED <<epc, pipeEnd, started, pipe, childWrote, reports, waited,
                   inputVars, initResult, pc, lifeVars, exitVars, proc, exitCode,
                   calls, invoked>>

\* Read reports the end of the stream (the pipe is empty and the child, its
\* only writer, has exited) or fails on a closed reader: io.Copy returns.
RelayEnd ==
    /\ Running
    /\ \E s \in Streams :
         /\ relay[s] = "reading"
         /\ \/ pipeEnd[s] = "closed"
            \/ pipeEnd[s] = "open" /\ pipe[s] = <<>> /\ started = "exited"
         /\ relay' = [relay EXCEPT ![s] = "done"]
    /\ UNCHANGED <<epc, pipeEnd, started, pipe, hand, out, childWrote, reports,
                   waited, inputVars, initResult, pc, lifeVars, exitVars, proc,
                   exitCode, calls, invoked>>

(***************************************************************************)
(* The program.                                                            *)
(***************************************************************************)
Init ==
    /\ commands \in Registries
    /\ args \in ArgLists
    /\ initResult = "none"
    /\ pc = "initialize"
    /\ exitStatus = 0
    /\ exitMu = Unlocked
    /\ spc = [t \in Threads |-> "idle"]
    /\ sn = [t \in Threads |-> 0]
    /\ ret = "run"
    /\ atexitFuncs = <<>>
    /\ xi = 1
    /\ xfuncs = <<>>
    /\ proc = "running"
    /\ exitCode = 0
    /\ calls = [t \in Threads |-> 0]
    /\ invoked = <<>>
    /\ passed = <<>>
    /\ ran = <<>>
    /\ exitCalls = 0
    /\ epc = "none"
    /\ pipeEnd = [s \in Streams |-> "unset"]
    /\ started = "no"
    /\ pipe = [s \in Streams |-> <<>>]
    /\ relay = [s \in Streams |-> "none"]
    /\ hand = [s \in Streams |-> <<>>]
    /\ out = [s \in Streams |-> <<>>]
    /\ childWrote = [s \in Streams |-> <<>>]
    /\ reports = <<>>
    /\ waited = FALSE

Next ==
    \/ MainInitialize
    \/ MainUsage
    \/ MainHelpReturns
    \/ MainHelpFails
    \/ MainRun
    \/ MainUnknown
    \/ Lock("main")
    \/ Compare("main")
    \/ Assign("main")
    \/ Unlock("main")
    \/ HandlerSetExitStatus
    \/ HandlerAtexit
    \/ HandlerReturn
    \/ ExitRunFunc
    \/ ExitOsExit
    \/ HandlerExecuteGoCommand
    \/ ExecStdoutPipe
    \/ ExecStderrPipe
    \/ ExecStart
    \/ ExecGoStdout
    \/ ExecGoStderr
    \/ ExecWait
    \/ ChildWrite
    \/ ChildExit
    \/ RelayPanic
    \/ RelayRead
    \/ RelayWrite
    \/ RelayEnd

Spec == Init /\ [][Next]_vars

(***************************************************************************)
(* Concurrent callers of setExitStatus: the goroutines a running handler   *)
(* started call setExitStatus, each at most MaxWorkerCalls times, in any   *)
(* interleaving, while the handler waits for them.                         *)
(***************************************************************************)
WorkerSetExitStatus(t) ==
    /\ Running /\ pc = "run"
    /\ spc[t] = "idle"
    /\ calls[t] < MaxWorkerCalls
    /\ \E n \in StatusValues :
         sn' = [sn EXCEPT ![t] = n]
    /\ spc' = [spc EXCEPT ![t] = "lock"]
    /\ calls' = [calls EXCEPT ![t] = @ + 1]
    /\ UNCHANGED <<relayVars, inputVars, initResult, pc, exitStatus, exitMu, ret,
                   passed, exitVars, proc, exitCode, invoked>>

\* The state in which MainRun has called the handler of "install".
InitStatus ==
    /\ commands = <<[UsageLine |-> sBuildUsage, Run |-> TRUE],
                    [UsageLine |-> sInstall, Run |-> TRUE]>>
    /\ args = <<sInstall>>
    /\ initResult = "ok"
    /\ pc = "run"
    /\ exitStatus = 0
    /\ exitMu = Unlocked
    /\ spc = [t \in Threads |-> "idle"]
    /\ sn = [t \in Threads |-> 0]
    /\ ret = "run"
    /\ atexitFuncs = <<>>
    /\ xi = 1
    /\ xfuncs = <<>>
    /\ proc = "running"
    /\ exitCode = 0
    /\ calls = [t \in Threads |-> 0]
    /\ invoked = <<[cmd |-> 2, args |-> <<>>]>>
    /\ passed = <<>>
    /\ ran = <<>>
    /\ exitCalls = 0
    /\ epc = "none"
    /\ pipeEnd = [s \in Streams |-> "unset"]
    /\ started = "no"
    /\ pipe = [s \in Streams |-> <<>>]
    /\ relay = [s \in Streams |-> "none"]
    /\ hand = [s \in Streams |-> <<>>]
    /\ out = [s \in Streams |-> <<>>]
    /\ childWrote = [s \in Streams |-> <<>>]
    /\ reports = <<>>
    /\ waited = FALSE

NextStatus ==
    \/ \E t \in Workers : WorkerSetExitStatus(t)
    \/ \E t \in Workers : Lock(t)
    \/ \E t \in Workers : Compare(t)
    \/ \E t \in Workers : Assign(t)
    \/ \E t \in Workers : Unlock(t)

SpecStatus == InitStatus /\ [][NextStatus]_vars

(***************************************************************************)
(* One call of executeGoCommand by a running handler, under the scheduling *)
(* the Go runtime gives: the main goroutine and each io.Copy goroutine     *)
(* take their next step when it stays possible.  Nothing is assumed of the *)
(* child: it may write, stop writing or exit at any time.                  *)
(***************************************************************************)
NextRelay ==
    \/ HandlerExecuteGoCommand
    \/ ExecStdoutPipe
    \/ ExecStderrPipe
    \/ ExecStart
    \/ ExecGoStdout
    \/ ExecGoStderr
    \/ ExecWait
    \/ ChildWrite
    \/ ChildExit
    \/ RelayPanic
    \/ RelayRead
    \/ RelayWrite
    \/ RelayEnd
    \/ HandlerReturn
    \/ ExitOsExit

\* The steps of the main goroutine inside executeGoCommand.
ExecStep ==
    \/ ExecStdoutPipe
    \/ ExecStderrPipe
    \/ ExecStart
    \/ ExecGoStdout
    \/ ExecGoStderr
    \/ ExecWait

\* The steps of the io.Copy goroutine of stream s.
RelayStep(s) ==
    (RelayRead \/ RelayWrite \/ RelayEnd) /\ relay'[s] # relay[s]

FairRelay ==
    /\ WF_vars(ExecStep)
    /\ \A s \in Streams : WF_vars(RelayStep(s))

SpecRelay == InitStatus /\ [][NextRelay]_vars /\ FairRelay

(***************************************************************************)
(* Properties.                                                             *)
(***************************************************************************)
Range(q) == {q[k] : k \in 1..Len(q)}
SetMax(S) == CHOOSE m \in S : \A x \in S : x <= m
Ended == proc # "running"
InitOk == initResult = "ok"
Named(arg) == \E i \in 1..Len(commands) : Name(commands[i]) = arg

\* C1: every path of main that ends the process, initialization having
\* succeeded, ends it through exit(), entered exactly once: the process
\* never ends by another way.
C1_ExitOnEveryPath ==
    (Ended /\ InitOk) => (proc = "exit" /\ exitCalls = 1)

\* C2: once executeGoCommand has returned after a child that was started
\* with both pipes open (and has exited, as Wait requires), each caller
\* stream holds exactly the bytes the child wrote to that stream.
C2_RelayComplete ==
    (epc = "returned" /\ started = "exited" /\ \A s \in Streams : pipeEnd[s] # "nil")
        => \A s \in Streams : out[s] = childWrote[s]

\* C3: exit() is entered at most once; the cleanup actions run are at every
\* moment the first registered ones, in registration order, each once; none
\* runs before exit() is entered; and when exit() ends the process every
\* registered action has run.
C3_CleanupOnceInOrder ==
    /\ exitCalls <= 1
    /\ Len(ran) <= Len(atexitFuncs)
    /\ ran = SubSeq(atexitFuncs, 1, Len(ran))
    /\ (exitCalls = 0 => ran = <<>>)
    /\ (proc = "exit" => ran = atexitFuncs)

\* C3 witness: exit() ended the process after running two different
\* actions registered in the order A, B.
C3_Witness ==
    proc = "exit" /\ atexitFuncs = <<"A", "B">> /\ ran = <<"A", "B">>

InSection(t) == spc[t] \in {"compare", "assign", "unlock"}
C5_ConcurrentMax ==
    /\ Cardinality({t \in Threads : InSection(t)}) <= 1
    /\ \A t \in Threads : InSection(t) <=> exitMu = t
    /\ \A k \in 1..Len(passed) : exitStatus >= passed[k]
    /\ \A t \in Threads : spc[t] = "unlock" => exitStatus >= sn[t]
    /\ (\A t \in Threads : spc[t] = "idle")
          => exitStatus = SetMax({0} \cup Range(passed))

\* C5 witness: one caller is about to assign while the other waits for the
\* mutex with a smaller value, after a first call has completed.
C5_Witness ==
    /\ spc["w1"] = "assign" /\ spc["w2"] = "lock"
    /\ sn["w2"] < sn["w1"] /\ Len(passed) >= 1

\* C6: when the first argument is not "help" and is the name of no
\* registered command, no handler is ever invoked, exit() is entered with
\* the status at 2, and the process ends through exit() with code 2.
C6_UnknownCommand ==
    (Len(args) >= 1 /\ ~IsHelp(args) /\ ~Named(args[1]))
        => /\ invoked = <<>>
           /\ pc \in {"initialize", "main", "setExitStatus", "exit", "halt"}
           /\ (pc = "exit" => exitStatus = 2)
           /\ ((Ended /\ InitOk)
                 => proc = "exit" /\ exitCode = 2 /\ passed = <<2>> /\ exitCalls = 1)

\* C6 witness: "zzz" was dispatched and the process has ended.
C6_Witness ==
    args = <<sZzz>> /\ proc = "exit" /\ exitCode = 2

\* C7: when the first argument is the name of a runnable command, its
\* handler is invoked once, with the remaining arguments; exit() is entered
\* only after the handler has returned; and the process ends with the
\* largest value the handler passed to setExitStatus, 0 if it passed none.
C7_HandlerThenExitStatus ==
    (InitOk /\ Len(args) >= 1 /\ ~IsHelp(args)
       /\ \E i \in 1..Len(commands) : Name(commands[i]) = args[1] /\ Runnable(commands[i]))
        => /\ Len(invoked) <= 1
           /\ (pc \in {"run", "setExitStatus", "exec", "exit", "halt"}
                 => Len(invoked) = 1 /\ invoked[1].args = Tail1(args))
           /\ (exitCalls >= 1 => pc \in {"exit", "halt"})
           /\ (Ended => exitCode = SetMax({0} \cup Range(passed)))

\* C8: with no arguments, with help and more than one argument, and with
\* help and one argument that names no command, no handler is invoked and
\* the process ends with code 2.
C8_UsageErrorsExit2 ==
    (\/ Len(args) = 0
     \/ IsHelp(args) /\ Len(args) > 2
     \/ IsHelp(args) /\ Len(args) = 2 /\ ~Named(args[2]))
        => /\ invoked = <<>>
           /\ pc \in {"initialize", "main", "halt"}
           /\ ((Ended /\ InitOk) => exitCode = 2)

\* C8 witness: "help build zzz" has ended the process.
C8_Witness ==
    args = <<sHelp, sBuild, sZzz>> /\ Ended /\ InitOk

\* C9: help alone, and help with the name of a registered command,
\* runnable or not, invoke no handler and end the process with code 0.
C9_HelpSucceeds ==
    (IsHelp(args) /\ (Len(args) = 1 \/ (Len(args) = 2 /\ Named(args[2]))))
        => /\ invoked = <<>>
           /\ pc \in {"initialize", "main", "halt"}
           /\ ((Ended /\ InitOk) => exitCode = 0)

\* C9 witness: help for a documentation-only command has ended the process.
C9_Witness ==
    /\ args = <<sHelp, sInstall>> /\ ~Runnable(commands[2])
    /\ Name(commands[2]) = sInstall /\ Ended /\ InitOk

\* C10: once a pipe call or Start has failed in executeGoCommand, no
\* io.Copy goroutine is ever launched and Wait is never called.
C10_FailureReturnsEarly ==
    reports # <<>> => (~waited /\ \A s \in Streams : relay[s] = "none")

\* C11: in a call whose two pipes were opened, a pipe the running child
\* has filled is always drained again, on either stream, so the child is
\* never blocked for ever; and once the child has exited executeGoCommand
\* returns.
BothOpen == \A s \in Streams : pipeEnd[s] = "open"
PipeFull(s) == started = "running" /\ BothOpen /\ Len(pipe[s]) = PipeCap
C11_RelayNeverDeadlocks ==
    /\ \A s \in Streams : PipeFull(s) ~> (Len(pipe[s]) < PipeCap)
    /\ (pc = "exec" /\ started = "exited" /\ BothOpen) ~> (epc = "returned")

\* C11 witness: the child is running and has filled both pipes.
C11_Witness ==
    PipeFull("stdout") /\ PipeFull("stderr")

\* C12: at every moment the bytes the io.Copy goroutines have written to a
\* caller stream are a prefix of the bytes the child has written to the
\* stream of the same name (none reordered, repeated, changed or skipped),
\* and no byte of the other stream is among them.
IsPrefix(p, q) == Len(p) <= Len(q) /\ p = SubSeq(q, 1, Len(p))
C13_RelayKeepsStatusAndProcess ==
    [][ /\ (pc = "exec" => exitStatus' = exitStatus)
        /\ proc' # "panic" ]_vars

\* C14: for every command of the registry, Name is the part of UsageLine
\* before its first space, or all of UsageLine when it has no space
\* ("build [f] p" gives "build", "install" gives "install"); the registry
\* entry is as it was drawn, and the derivation applied to a name returns
\* that name.  The command a handler was called for has the name that was
\* asked for.
HasSpace(s) == \E k \in 1..Len(s) : s[k] = " "
C14_NameDerivation ==
    /\ commands \in Registries
    /\ \A i \in 1..Len(commands) :
          LET l == commands[i].UsageLine
              n == Name(commands[i])
          IN  /\ ~HasSpace(n)
              /\ IsPrefix(n, l)
              /\ IF HasSpace(l) THEN l[Len(n) + 1] = " " ELSE n = l
              /\ l = sBuildUsage => n = sBuild
              /\ NameOf(n) = n
    /\ \A k \in 1..Len(invoked) : Name(commands[invoked[k].cmd]) = args[1]
C14_Witness ==
    /\ Len(invoked) = 1
    /\ commands[invoked[1].cmd].UsageLine = sBuildUsage
    /\ commands[2].UsageLine = sInstall

\* C15: once initialize has failed (no application path, unreadable
\* configuration, or a usage text that is missing or has fewer than two
\* parts), main is past its last statement: it never reached the argument
\* tests, no handler was called, setExitStatus was never entered and
\* exitStatus is 0.
InitHasFailed == initResult \in {"noAppPath", "badConfig", "badUsage"}
C15_NoDispatchAfterFailedInit ==
    InitHasFailed =>
        /\ pc = "halt" /\ Ended
        /\ invoked = <<>> /\ \A t \in Threads : calls[t] = 0
        /\ \A t \in Threads : spc[t] = "idle"
        /\ passed = <<>> /\ exitStatus = 0
        /\ epc = "none"
C15_Witness == initResult = "badUsage" /\ Len(args) >= 1 /\ Ended

\* C16: once executeGoCommand has returned to the handler (and so also once
\* exit() has begun), neither of the two copying goroutines it started is
\* still running.
RelayRunning(s) == relay[s] \in {"reading", "writing"}
C16_JoinBeforeReturn ==
    epc = "returned" => \A s \in Streams : ~RelayRunning(s)

\* C17: exitStatus is 0 at the start, no step of the program lowers it,
\* and the only step that changes it is the assignment of line 208 inside
\* setExitStatus.
C17_StatusNeverLowered ==
    /\ exitStatus = 0
    /\ [][ /\ exitStatus' >= exitStatus
           /\ exitStatus' # exitStatus =>
                 \E t \in Threads : /\ spc[t] = "assign"
                                     /\ spc'[t] = "unlock"
                                     /\ exitStatus' = sn[t] ]_vars
C17_Witness == exitStatus = 2 /\ passed = <<2, 1>> /\ proc = "exit"

\* The dispatch loop has been passed: main was given a first argument other
\* than "help" and has left lines 188-194.
Dispatched ==
    /\ InitOk /\ Len(args) >= 1 /\ ~IsHelp(args)
    /\ pc \notin {"initialize", "main"}
NamedAt(arg) == {i \in 1..Len(commands) : Name(commands[i]) = arg}
RunnableNamedAt(arg) == {i \in NamedAt(arg) : commands[i].Run}
First(S) == CHOOSE i \in S : \A j \in S : i <= j

\* C18 as claimed: after dispatch of an argument that is the name of some
\* registry entry, the one handler call made is for the first entry of
\* that name; at most one handler is called in a run.
C18_FirstNamedSelected ==
    /\ Len(invoked) <= 1
    /\ Dispatched /\ NamedAt(args[1]) # {} =>
          /\ Len(invoked) = 1
          /\ invoked[1].cmd = First(NamedAt(args[1]))

\* C18, amended: after dispatch the one handler call made is for the first
\* entry that has the argument as its name and has a Run function, with
\* the arguments after the first, and no handler is called when there is
\* no such entry; at most one handler is called in a run, and no step
\* changes the registry.
C18_FirstRunnableNamedSelected ==
    /\ [](Len(invoked) <= 1)
    /\ [](Dispatched =>
            IF RunnableNamedAt(args[1]) = {}
            THEN invoked = <<>>
            ELSE invoked = <<[cmd |-> First(RunnableNamedAt(args[1])),
                             args |-> Tail1(args)]>>)
    /\ [][commands' = commands]_vars
C18_Witness ==
    /\ Dispatched
    /\ Cardinality(RunnableNamedAt(args[1])) = 2
    /\ Len(invoked) = 1 /\ invoked[1].cmd = 1

\* C19: when the first argument is the name of a registry entry without a
\* Run function (and of no entry with one), no handler is called, and the
\* process ends only through exit(), entered once after setExitStatus(2),
\* with every registered cleanup action run and exit code 2; "help" with
\* that name as its only argument ends the process by main returning, with
\* exit code 0.
DocOnly(arg) == NamedAt(arg) # {} /\ RunnableNamedAt(arg) = {}
C20_FailedInitExitsZero ==
    InitHasFailed =>
        /\ proc = "return" /\ exitCode = 0
        /\ exitCalls = 0 /\ ran = <<>>
C20_Witness == initResult = "badConfig" /\ proc = "return" /\ exitCode = 0

=============================================================================
